---- MODULE Spec2Model ----
(***************************************************************************)
(* AllanEcho AI: the App component's memo list with its localStorage       *)
(* persistence (src/App.tsx), the memo Recorder that feeds it              *)
(* (src/components/Recorder.tsx), the Translator's request bookkeeping     *)
(* (src/components/Translator.tsx, the last version in the file, lines     *)
(* 252-590) and the service wrapper's MIME normalisation                   *)
(* (src/unnamed/part_000, the version with normalizeMimeType, lines        *)
(* 137-278).                                                               *)
(*                                                                         *)
(* Strings the code inspects character by character (MIME types) are       *)
(* sequences of one-character strings.  A UUID is a number drawn from a    *)
(* counter that never repeats.  The decoy overlay only blocks the UI and   *)
(* is left out: handleRecordingComplete reads the isDecoyMode of the       *)
(* render in which the recording was started, which is always false.       *)
(***************************************************************************)
EXTENDS Integers, Sequences, FiniteSets, TLC

\* ------------------------------------------------------------- bounds
MaxMemos == 2       \* recordings handed to handleRecordingComplete
QuotaLen == 1       \* memos that fit into localStorage before setItem throws
MaxRequests == 4    \* values requestIdRef takes in one Translator instance
MaxInFlight == 2    \* translation requests awaiting an answer at one time
MaxTimers == 2      \* delayed setStatus(IDLE) callbacks pending at one time
MaxPieces == 2      \* pieces concatenated into a MIME type string
MaxLogs == 2        \* log entries kept (App.tsx 27 keeps 50)
MaxPending == 1     \* startRecording calls of the Translator waiting at an await
MaxSeconds == 1     \* seconds the Translator's timer counts
MaxElapsed == 2     \* seconds the Recorder's counter counts

\* ------------------------------------------------- program constants
MinMemoBlob == 1500     \* Recorder.tsx: audioBlob.size > 1500
MinPressMs == 400       \* Translator.tsx: pressDuration > 400
MinTransBlob == 500     \* Translator.tsx: audioBlob.size > 500

VARIABLES
  memos,            \* App: useState<Memo[]>
  status,           \* App: useState<ProcessingStatus>, shared with both tabs
  activeTab,        \* App: useState<Tab>
  hasMicPermission, \* App: "null", "true" or "false"
  storage,          \* localStorage item 'echo_mind_memos'
  mountPc,          \* where the App's mount is: load, save0, render, ready
  loadQueued,       \* the setMemos(cleaned) the load effect queued
  jobs,             \* handleRecordingComplete calls awaiting a result, by memoId
  idleTimers,       \* pending setTimeout(() => setStatus(IDLE)) callbacks
  nextId,           \* the next fresh id (crypto.randomUUID)
  isRecording,      \* Recorder: useState(false)
  recStream,        \* Recorder: the tracks of the stream in streamRef are live
  seconds,          \* Recorder: useState(0), the elapsed seconds shown
  recSeconds,       \* Recorder: the seconds that the recorder's onstop closure holds
  isIOS,            \* the device: /iPad|iPhone|iPod/.test(navigator.userAgent)
  logs,             \* App: useState<LogEntry[]>, newest first
  \* The mounted Translator (App.tsx 282-286 mounts it on the translate tab).
  isPressing,       \* useState(false)
  targetLang,       \* useState('English')
  translationData,  \* useState<{original, translated} | null>(null)
  uploadProgress,   \* useState(false)
  requestIdRef,     \* useRef<number>(0)
  lastTranslatedTo, \* lastTranslatedToRef, useRef<string>('')
  tRecorder,        \* the recorder in mediaRecorderRef: none, recording,
                    \* stopping (stop event queued), inactive
  pressTarget,      \* the targetLang that the recorder's onstop closure holds
  held,             \* the user's finger is down on the record button
  timer,            \* useState(0), the seconds shown
  timerInterval,    \* timerIntervalRef holds a running interval
  starts,           \* startRecording calls waiting at an await
  activeStream,     \* activeStreamRef holds a stream whose tracks are live
  requests,         \* translation requests awaiting the reader or the API
  \* The service wrapper seen alone.
  mimeIn,           \* the mimeType argument of a service call
  apiMime           \* the inlineData.mimeType sent to the API

memoVars == <<memos, status, activeTab, hasMicPermission, storage, mountPc,
              loadQueued, jobs, idleTimers, nextId, isRecording, recStream, seconds, recSeconds, isIOS,
              logs>>

transVars == <<isPressing, targetLang, translationData, uploadProgress,
               requestIdRef, lastTranslatedTo, tRecorder, requests,
               pressTarget, held, timer, timerInterval, starts, activeStream>>

pressVars ==
  <<pressTarget, held, timer, timerInterval, starts, activeStream>>

mimeVars == <<mimeIn, apiMime>>

vars == <<memoVars, transVars, mimeVars>>

\* ------------------------------------------------------------ strings
AudioWebm == <<"a","u","d","i","o","/","w","e","b","m">>
AudioMp4  == <<"a","u","d","i","o","/","m","p","4">>
AudioMpeg == <<"a","u","d","i","o","/","m","p","e","g">>
AudioWav  == <<"a","u","d","i","o","/","w","a","v">>

\* String.prototype.split(';')[0]: the text before the first semicolon.
RECURSIVE SplitSemi0(_)
SplitSemi0(s) ==
  IF s = <<>> \/ Head(s) = ";" THEN <<>>
  ELSE <<Head(s)>> \o SplitSemi0(Tail(s))

\* String.prototype.toLowerCase on the letters of the Latin alphabet.
UpperCase == <<"A","B","C","D","E","F","G","H","I","J","K","L","M",
               "N","O","P","Q","R","S","T","U","V","W","X","Y","Z">>
LowerCase == <<"a","b","c","d","e","f","g","h","i","j","k","l","m",
               "n","o","p","q","r","s","t","u","v","w","x","y","z">>
LowerChar(c) ==
  IF \E i \in 1..Len(UpperCase) : UpperCase[i] = c
  THEN LowerCase[CHOOSE i \in 1..Len(UpperCase) : UpperCase[i] = c]
  ELSE c
toLowerCase(s) == [i \in 1..Len(s) |-> LowerChar(s[i])]

\* String.prototype.includes
includes(s, sub) ==
  \E i \in 0..(Len(s) - Len(sub)) : SubSeq(s, i + 1, i + Len(sub)) = sub

\* part_000 148-158
normalizeMpegFirst(mimeType) ==
  LET lower == toLowerCase(mimeType) IN
  IF \/ includes(lower, <<"m","p","e","g">>)
     \/ includes(lower, <<"m","p","3">>) THEN AudioMpeg
  ELSE IF includes(lower, <<"w","e","b","m">>) THEN AudioWebm
  ELSE IF \/ includes(lower, <<"m","p","4">>)
          \/ includes(lower, <<"m","4","a">>)
          \/ includes(lower, <<"x","-","m","4","a">>)
          \/ includes(lower, <<"a","a","c">>) THEN AudioMp4
  ELSE IF includes(lower, <<"w","a","v">>) THEN AudioWav
  ELSE AudioMp4
normalizeMimeType(mimeType) ==
  LET lower == toLowerCase(mimeType) IN
  IF includes(lower, <<"w","e","b","m">>) THEN AudioWebm
  ELSE IF \/ includes(lower, <<"m","p","4">>)
          \/ includes(lower, <<"m","4","a">>)
          \/ includes(lower, <<"x","-","m","4","a">>)
          \/ includes(lower, <<"a","a","c">>) THEN AudioMp4
  ELSE IF \/ includes(lower, <<"m","p","e","g">>)
          \/ includes(lower, <<"m","p","3">>) THEN AudioMpeg
  ELSE IF includes(lower, <<"w","a","v">>) THEN AudioWav
  ELSE AudioMp4

\* --------------------------------------------------------------- Memo
Tabs == {"record", "translate", "library", "settings"}

\* The keys of a Memo in the order the object literal lists them.
KeyOrder == <<"id", "timestamp", "audioBase64", "mimeType", "transcript",
              "summary", "duration", "isProcessing", "error">>

\* { ...m, k1: v1, ... }: the spread of m with the keys of o set.
Spread(m, o) ==
  [k \in (DOMAIN m) \cup (DOMAIN o) |-> IF k \in DOMAIN o THEN o[k] ELSE m[k]]

\* m.isProcessing as a condition: an absent key is undefined, which is falsy.
Truthy(m, k) == k \in DOMAIN m /\ m[k] = TRUE

MapMemos(f(_), list) == [i \in 1..Len(list) |-> f(list[i])]

Ids(list) == {list[i]["id"] : i \in 1..Len(list)}

\* ------------------------------------------------------ JSON, storage
\* JSON.stringify of an object: its keys, in order, each with its value.
RECURSIVE StringifyKeys(_, _)
StringifyKeys(m, keys) ==
  IF keys = <<>> THEN <<>>
  ELSE (IF Head(keys) \in DOMAIN m THEN << <<Head(keys), m[Head(keys)]>> >>
        ELSE <<>>) \o StringifyKeys(m, Tail(keys))

JSONstringify(list) == [i \in 1..Len(list) |-> StringifyKeys(list[i], KeyOrder)]

\* JSON.parse of one object: the value of each key the text holds.
ParseObject(j) ==
  [k \in {j[i][1] : i \in 1..Len(j)} |->
     LET i == CHOOSE n \in 1..Len(j) : j[n][1] = k IN j[i][2]]

JSONparse(text) == [i \in 1..Len(text) |-> ParseObject(text[i])]

NoItem == [has |-> FALSE, text |-> <<>>]

\* localStorage.setItem: throws when the value does not fit, and then the
\* item keeps its old value (the save effect's catch only logs).
SetItem(old, text) ==
  IF Len(text) > QuotaLen THEN old ELSE [has |-> TRUE, text |-> text]

\* App.tsx 43-45: the cleaning the load effect applies.
LoadCleanEvery(m) ==
  Spread(m, [isProcessing |-> FALSE, error |-> TRUE,
             summary |-> "Processing interrupted"])
LoadCleanNothing(m) == m
LoadClean(m) ==
  IF Truthy(m, "isProcessing")
  THEN Spread(m, [isProcessing |-> FALSE, error |-> TRUE,
                  summary |-> "Processing interrupted"])
  ELSE m

\* App.tsx 55-57: the cleaning the save effect applies.
SaveCleanNothing(m) == m
SaveClean(m) ==
  IF Truthy(m, "isProcessing")
  THEN Spread(m, [isProcessing |-> FALSE, error |-> TRUE,
                  summary |-> "Processing failed"])
  ELSE m

\* App.tsx 53-62: the save effect, run after a render with a new memos array.
SaveEffect(list, old) == SetItem(old, JSONstringify(MapMemos(SaveClean, list)))

\* App.tsx 21-29: addLog, the list cut to its newest entries.
AddLog(l, type, source) ==
  LET all == <<[type |-> type, source |-> source]>> \o l
  IN SubSeq(all, 1, IF Len(all) > MaxLogs THEN MaxLogs ELSE Len(all))

\* App.tsx 59-61: the save effect's catch logs a warning when setItem threw.
SaveLog(list, l) ==
  IF Len(JSONstringify(MapMemos(SaveClean, list))) > QuotaLen
  THEN AddLog(l, "WARNING", "Storage") ELSE l

\* setMemos(list) in a handler that leaves the log at l, followed by the
\* render and the save effect it triggers.
SetMemosAfter(list, l) ==
  /\ memos' = list
  /\ storage' = SaveEffect(list, storage)
  /\ logs' = SaveLog(list, l)

SetMemos(list) == SetMemosAfter(list, logs)

\* ------------------------------------------------------------ service
\* The texts the hosted model answers with (an empty answer makes the
\* wrappers fall back to a fixed text).
TranscriptTexts == {"hello"}
SummaryTexts == {"gist"}

\* part_000 160-189: the value transcribeAudio resolves to.
transcribeAudio(text) ==
  IF text = "" THEN "Transcription produced no text." ELSE text

\* part_000 191-206: the value summarizeTranscript resolves to.
summarizeTranscript(text) ==
  IF text = "" THEN "Summary failed." ELSE text

\* What the hosted model hears in a recording, and the answers it gives to
\* a translation request: a JSON text with both keys, or a text that
\* JSON.parse rejects.  A translation is the pair of the text and the
\* language; an empty answer is the empty tuple.
Heard == "hola"
Translation(text, tl) == <<text, tl>>
AudioAnswers(tl) ==
  {[json |-> TRUE, original |-> Heard, translated |-> Translation(Heard, tl)],
   [json |-> FALSE, text |-> <<"not json">>]}
TextAnswers(text, tl) == {Translation(text, tl), <<>>}

\* part_000 250-255: the value translateAudio resolves to.
translateAudio(answer) ==
  IF answer.json
  THEN [original |-> answer.original, translated |-> answer.translated]
  ELSE [original |-> "Audio processed", translated |-> answer.text]

\* part_000 273: the value translateText resolves to.
translateText(answer) ==
  IF answer = <<>> THEN <<"Translation failed.">> ELSE answer

\* ---------------------------------------------------------------- App
NoJob == [stage |-> "none"]

Processing == {"TRANSCRIBING", "SUMMARIZING"}

\* App.tsx 120-129: the memo handleRecordingComplete creates.
InitialMemo(id, base64, mime, duration) ==
  [id |-> id, timestamp |-> id, audioBase64 |-> base64, mimeType |-> mime,
   transcript |-> "Analysing voice patterns...",
   summary |-> "Gemini is thinking...",
   duration |-> IF duration = 0 THEN 1 ELSE duration,
   isProcessing |-> TRUE]

\* App.tsx 130: prev => [initialMemo, ...prev]
AddMemoAtTail(list, memo) == list \o <<memo>>
AddMemo(list, memo) == <<memo>> \o list

\* App.tsx 135: prev.map(m => m.id === memoId ? { ...m, transcript } : m)
WithTranscriptOfAll(list, id, transcript) ==
  [i \in 1..Len(list) |-> Spread(list[i], [transcript |-> transcript])]
WithTranscriptEndsProcessing(list, id, transcript) ==
  [i \in 1..Len(list) |->
     IF list[i]["id"] = id
     THEN Spread(list[i], [transcript |-> transcript, isProcessing |-> FALSE])
     ELSE list[i]]
WithTranscript(list, id, transcript) ==
  [i \in 1..Len(list) |->
     IF list[i]["id"] = id THEN Spread(list[i], [transcript |-> transcript])
     ELSE list[i]]

\* App.tsx 139: prev.map(m => m.id === memoId ? { ...m, summary, isProcessing: false } : m)
WithSummary(list, id, summary) ==
  [i \in 1..Len(list) |->
     IF list[i]["id"] = id
     THEN Spread(list[i], [summary |-> summary, isProcessing |-> FALSE])
     ELSE list[i]]

\* App.tsx 146: the memo of a failed run.
WithFailureRemoves(list, id) == SelectSeq(list, LAMBDA m : m["id"] # id)
WithFailureKeepsSummary(list, id) ==
  [i \in 1..Len(list) |->
     IF list[i]["id"] = id
     THEN Spread(list[i], [isProcessing |-> FALSE, error |-> TRUE])
     ELSE list[i]]
WithFailureStillProcessing(list, id) ==
  [i \in 1..Len(list) |->
     IF list[i]["id"] = id
     THEN Spread(list[i], [error |-> TRUE, summary |-> "Cloud processing error."])
     ELSE list[i]]
WithFailure(list, id) ==
  [i \in 1..Len(list) |->
     IF list[i]["id"] = id
     THEN Spread(list[i], [isProcessing |-> FALSE, error |-> TRUE,
                           summary |-> "Cloud processing error."])
     ELSE list[i]]

\* App.tsx 152: prev.filter(m => m.id !== id)
RECURSIVE Filter(_, _)
Filter(list, id) ==
  IF list = <<>> THEN <<>>
  ELSE (IF Head(list)["id"] # id THEN <<Head(list)>> ELSE <<>>)
       \o Filter(Tail(list), id)
WithoutFirstMemo(list, id) == IF list = <<>> THEN <<>> ELSE Tail(list)
WithoutMemo(list, id) == Filter(list, id)

\* App.tsx 113: the early return of handleRecordingComplete.
Accepted(size, duration) == ~(duration = 0 /\ size = 0)

Ready == mountPc = "ready"
UiOpen == Ready /\ hasMicPermission = "true"

\* ------------------------------------------------- Translator, its state
Langs == {"English", "Chinese"}

\* No request was built yet.
NoCall == [call |-> "none", mimeType |-> <<>>]

\* translationData === null
NullData == [isNull |-> TRUE]

\* App.tsx 282-286: the Translator is rendered on the translate tab only.
TranslatorMounted == UiOpen /\ activeTab = "translate"

\* Translator.tsx 288
isBusy(s) == s = "TRANSLATING"

\* Translator.tsx 307-311
shouldReTranslate(td, busy, pressing, tl, last) ==
  /\ td # NullData
  /\ td.original # ""
  /\ ~busy
  /\ ~pressing
  /\ tl # last

\* A request in flight.  id is the captured currentRequestId.  A request
\* whose Translator instance was unmounted (orphan) reads, through its
\* closure, the requestIdRef of that instance, which nothing changes any
\* more (ref).  cancelled records that cancelTranslation ran while the
\* request was in flight; the code keeps no such mark.
AudioRequest(id, mime, tl) ==
  [id |-> id, kind |-> "audio", phase |-> "reading", target |-> tl,
   text |-> "", mime |-> mime, orphan |-> FALSE, ref |-> 0,
   cancelled |-> FALSE]
TextRequest(id, text, tl) ==
  [id |-> id, kind |-> "text", phase |-> "api", target |-> tl,
   text |-> text, mime |-> <<>>, orphan |-> FALSE, ref |-> 0,
   cancelled |-> FALSE]

\* requestIdRef.current as the callbacks of request r read it.
RefSeenBy(r) == IF r.orphan THEN r.ref ELSE requestIdRef

\* The render of the mounted Translator after a handler left status, state
\* and refs at the given values, with the effect of Translator.tsx 306-337:
\* it runs when targetLang, isBusy or isPressing changed, and
\* performReTranslation (313-335) then issues a text request.
Render(s, pressing, tl, td, up, ref, last, reqs) ==
  LET due == /\ (tl # targetLang \/ isBusy(s) # isBusy(status)
                 \/ pressing # isPressing)
             /\ shouldReTranslate(td, isBusy(s), pressing, tl, last)
  IN /\ isPressing' = pressing
     /\ targetLang' = tl
     /\ translationData' = td
     /\ uploadProgress' = up
     /\ lastTranslatedTo' = last
     /\ IF due
        THEN /\ ref < MaxRequests /\ Len(reqs) < MaxInFlight
             /\ requestIdRef' = ref + 1
             /\ status' = "TRANSLATING"
             /\ requests' = Append(reqs, TextRequest(ref + 1, td.original, tl))
        ELSE /\ requestIdRef' = ref
             /\ status' = s
             /\ requests' = reqs

\* setStatus(s) called from outside the mounted Translator, the requests in
\* flight becoming reqs.
SetStatusWith(s, reqs) ==
  IF TranslatorMounted
  THEN Render(s, isPressing, targetLang, translationData, uploadProgress,
              requestIdRef, lastTranslatedTo, reqs)
  ELSE /\ status' = s
       /\ requests' = reqs
       /\ UNCHANGED <<isPressing, targetLang, translationData, uploadProgress,
                      requestIdRef, lastTranslatedTo>>

SetStatus(s) ==
  SetStatusWith(s, requests) /\ UNCHANGED <<tRecorder, pressVars>>

\* The Translator is unmounted: the next instance starts from its useState
\* and useRef initial values, the requests in flight keep the old closures.
Orphaned(reqs) ==
  [i \in 1..Len(reqs) |->
     IF reqs[i].orphan THEN reqs[i]
     ELSE [reqs[i] EXCEPT !.orphan = TRUE, !.ref = requestIdRef]]

FreshTranslator ==
  /\ isPressing' = FALSE
  /\ targetLang' = "English"
  /\ translationData' = NullData
  /\ uploadProgress' = FALSE
  /\ requestIdRef' = 0
  /\ lastTranslatedTo' = ""
  /\ tRecorder' = "none"
  /\ pressTarget' = ""
  /\ held' = FALSE
  /\ timer' = 0
  /\ timerInterval' = FALSE
  /\ starts' = <<>>
  /\ activeStream' = FALSE

Unmount ==
  /\ FreshTranslator
  /\ requests' = Orphaned(requests)

\* The stop event of a stopped MediaRecorder is dispatched before any other
\* input is handled.
NoStopQueued == tRecorder # "stopping"

Init ==
  /\ memos = <<>>
  /\ status = "IDLE"
  /\ activeTab = "translate"
  /\ hasMicPermission = "null"
  /\ storage = NoItem
  /\ mountPc = "load"
  /\ loadQueued = [set |-> FALSE, list |-> <<>>]
  /\ jobs = [j \in 1..MaxMemos |-> NoJob]
  /\ idleTimers = 0
  /\ nextId = 1
  /\ isRecording = FALSE
  /\ recStream = FALSE
  /\ seconds = 0
  /\ recSeconds = 0
  /\ isIOS \in BOOLEAN
  /\ logs = <<>>
  /\ isPressing = FALSE
  /\ targetLang = "English"
  /\ translationData = NullData
  /\ uploadProgress = FALSE
  /\ requestIdRef = 0
  /\ lastTranslatedTo = ""
  /\ tRecorder = "none"
  /\ pressTarget = ""
  /\ held = FALSE
  /\ timer = 0
  /\ timerInterval = FALSE
  /\ starts = <<>>
  /\ activeStream = FALSE
  /\ requests = <<>>
  /\ mimeIn = <<>>
  /\ apiMime = NoCall

\* App.tsx 38-51: the load effect of the first render.
LoadEffect ==
  /\ mountPc = "load"
  /\ loadQueued' =
       IF storage.has
       THEN [set |-> TRUE, list |-> MapMemos(LoadClean, JSONparse(storage.text))]
       ELSE [set |-> FALSE, list |-> <<>>]
  /\ mountPc' = "save0"
  /\ UNCHANGED <<memos, status, activeTab, hasMicPermission, storage, jobs,
                 idleTimers, nextId, isRecording, recStream, seconds, recSeconds, isIOS, logs, transVars, mimeVars>>

\* App.tsx 53-62: the save effect of the first render, whose memos is [].
MountSaveEffect ==
  /\ mountPc = "save0"
  /\ storage' = SaveEffect(memos, storage)
  /\ logs' = SaveLog(memos, logs)
  /\ mountPc' = "render"
  /\ UNCHANGED <<memos, status, activeTab, hasMicPermission, loadQueued, jobs,
                 idleTimers, nextId, isRecording, recStream, seconds, recSeconds, isIOS, transVars, mimeVars>>

\* The render the queued setMemos(cleaned) causes, and its save effect.
MountRender ==
  /\ mountPc = "render"
  /\ IF loadQueued.set THEN SetMemos(loadQueued.list)
     ELSE UNCHANGED <<memos, storage, logs>>
  /\ loadQueued' = [set |-> FALSE, list |-> <<>>]
  /\ mountPc' = "ready"
  /\ UNCHANGED <<status, activeTab, hasMicPermission, jobs, idleTimers, nextId,
                 isRecording, recStream, seconds, recSeconds, isIOS, transVars, mimeVars>>

\* App.tsx 64-80: requestPermission, getUserMedia granting or refusing.
RequestPermission(granted) ==
  /\ Ready /\ hasMicPermission # "true"
  /\ hasMicPermission' = IF granted THEN "true" ELSE "false"
  /\ logs' = AddLog(logs, IF granted THEN "INFO" ELSE "ERROR", "Permission")
  /\ UNCHANGED <<memos, status, activeTab, storage, mountPc, loadQueued, jobs,
                 idleTimers, nextId, isRecording, recStream, seconds, recSeconds, isIOS, transVars, mimeVars>>

\* App.tsx 327-365: a footer button.  Leaving the record tab unmounts the
\* Recorder (App.tsx 288-292), whose next instance starts with isRecording
\* false; leaving the translate tab unmounts the Translator (App.tsx 282-286).
SetActiveTab(t) ==
  /\ UiOpen /\ t # activeTab
  /\ NoStopQueued
  /\ activeTab' = t
  /\ isRecording' = FALSE
  /\ recStream' = FALSE
  /\ seconds' = 0
  /\ recSeconds' = 0
  /\ IF activeTab = "translate" THEN Unmount ELSE UNCHANGED transVars
  /\ UNCHANGED <<memos, status, hasMicPermission, storage, mountPc, loadQueued,
                 jobs, idleTimers, nextId, isIOS, logs, mimeVars>>

\* Recorder.tsx 55-56: the MediaRecorder's mimeType, in a browser that
\* supports audio/webm.
RecorderMime == IF isIOS THEN AudioMp4 ELSE AudioWebm

\* Recorder.tsx 42-84: startRecording with the microphone granted.
RecStart ==
  /\ UiOpen /\ activeTab = "record"
  /\ ~isRecording /\ status \notin Processing
  /\ nextId <= MaxMemos
  /\ isRecording' = TRUE
  /\ recStream' = TRUE
  /\ recSeconds' = seconds
  /\ UNCHANGED seconds
  /\ UNCHANGED <<memos, status, activeTab, hasMicPermission, storage, mountPc,
                 loadQueued, jobs, idleTimers, nextId, isIOS, logs, transVars,
                 mimeVars>>

\* Recorder.tsx 70-78: the test of onstop that lets the recording go to
\* onRecordingComplete.
Complete(chunks, size) == chunks > 0 /\ size > MinMemoBlob

StopTracksWhenComplete(chunks, size) ==
  IF Complete(chunks, size) THEN FALSE ELSE recStream

\* Recorder.tsx 79: onstop stops every track of the stream, whatever the
\* recording held.
StopTracks(chunks, size) == FALSE

\* Recorder.tsx 18-22: the interval's callback, setSeconds(s => s + 1),
\* while isRecording.
TickSeconds ==
  /\ UiOpen /\ activeTab = "record"
  /\ isRecording /\ seconds < MaxElapsed
  /\ seconds' = seconds + 1
  /\ UNCHANGED <<memos, status, activeTab, hasMicPermission, storage, mountPc,
                 loadQueued, jobs, idleTimers, nextId, isRecording, recStream,
                 recSeconds, isIOS, logs, transVars, mimeVars>>

\* Recorder.tsx 91-101 and 66-81: stopRecording and the recorder's onstop,
\* which calls handleRecordingComplete (App.tsx 112-117) with the seconds of
\* its closure, those of the render whose startRecording created the
\* recorder; the effect (18-30) then sets the counter back to 0.  Chunks
\* are pushed only when they hold data (66-68), so the blob is empty exactly
\* when there is no chunk.  elapsed records the counter at the stop; the
\* code passes no such value on.
RecStop(chunks, size) ==
  /\ UiOpen /\ activeTab = "record"
  /\ isRecording /\ status \notin Processing
  /\ (chunks = 0) = (size = 0)
  /\ isRecording' = FALSE
  /\ recStream' = StopTracks(chunks, size)
  /\ seconds' = 0
  /\ UNCHANGED recSeconds
  /\ IF Complete(chunks, size) /\ Accepted(size, recSeconds)
     THEN /\ jobs' = [jobs EXCEPT ![nextId] =
                        [stage |-> "reading", mime |-> SplitSemi0(RecorderMime),
                         duration |-> recSeconds, transcript |-> "",
                         elapsed |-> seconds]]
          /\ nextId' = nextId + 1
          /\ logs' = AddLog(logs, "INFO", "Recorder")
     ELSE UNCHANGED <<jobs, nextId, logs>>
  /\ UNCHANGED <<memos, status, activeTab, hasMicPermission, storage, mountPc,
                 loadQueued, idleTimers, isIOS, transVars, mimeVars>>

\* App.tsx 119-132: blobToBase64 resolved.
BlobReadOk(j) ==
  /\ jobs[j].stage = "reading"
  /\ SetMemos(AddMemo(memos, InitialMemo(j, <<"base64", j>>, jobs[j].mime,
                                       jobs[j].duration)))
  /\ NoStopQueued
  /\ status' = "TRANSCRIBING"
  /\ activeTab' = "library"
  /\ isRecording' = IF activeTab = "record" THEN FALSE ELSE isRecording
  /\ recStream' = IF activeTab = "record" THEN FALSE ELSE recStream
  /\ seconds' = IF activeTab = "record" THEN 0 ELSE seconds
  /\ recSeconds' = IF activeTab = "record" THEN 0 ELSE recSeconds
  /\ IF activeTab = "translate" THEN Unmount ELSE UNCHANGED transVars
  /\ jobs' = [jobs EXCEPT ![j].stage = "transcribing"]
  /\ UNCHANGED <<hasMicPermission, mountPc, loadQueued, idleTimers, nextId,
                 isIOS, mimeVars>>

\* App.tsx 143-148: the catch block.
Catch(j) ==
  /\ SetStatus("ERROR")
  /\ SetMemosAfter(WithFailure(memos, j), AddLog(logs, "ERROR", "Cloud"))
  /\ idleTimers' = idleTimers + 1
  /\ jobs' = [jobs EXCEPT ![j] = NoJob]
  /\ UNCHANGED <<activeTab, hasMicPermission, mountPc, loadQueued, nextId,
                 isRecording, recStream, seconds, recSeconds, isIOS, mimeVars>>

\* App.tsx 107, 119: blobToBase64 rejected.
BlobReadFail(j) ==
  /\ jobs[j].stage = "reading"
  /\ Catch(j)

\* App.tsx 134-137: transcribeAudio resolved.
TranscribeOk(j, text) ==
  /\ jobs[j].stage = "transcribing"
  /\ SetMemos(WithTranscript(memos, j, transcribeAudio(text)))
  /\ SetStatus("SUMMARIZING")
  /\ jobs' = [jobs EXCEPT ![j].stage = "summarizing",
                          ![j].transcript = transcribeAudio(text)]
  /\ UNCHANGED <<activeTab, hasMicPermission, mountPc, loadQueued, idleTimers,
                 nextId, isRecording, recStream, seconds, recSeconds, isIOS, mimeVars>>

\* App.tsx 134, 143: transcribeAudio threw.
TranscribeFail(j) ==
  /\ jobs[j].stage = "transcribing"
  /\ Catch(j)

\* App.tsx 138-142: summarizeTranscript resolved.
SummarizeOk(j, text) ==
  /\ jobs[j].stage = "summarizing"
  /\ SetMemosAfter(WithSummary(memos, j, summarizeTranscript(text)),
                   AddLog(logs, "INFO", "Cloud"))
  /\ SetStatus("IDLE")
  /\ jobs' = [jobs EXCEPT ![j] = NoJob]
  /\ UNCHANGED <<activeTab, hasMicPermission, mountPc, loadQueued, idleTimers,
                 nextId, isRecording, recStream, seconds, recSeconds, isIOS, mimeVars>>

\* App.tsx 138, 143: summarizeTranscript threw.
SummarizeFail(j) ==
  /\ jobs[j].stage = "summarizing"
  /\ Catch(j)

\* App.tsx 147, Translator.tsx 331, 473: a delayed setStatus(IDLE).
IdleTimerFire ==
  /\ idleTimers > 0
  /\ NoStopQueued
  /\ idleTimers' = idleTimers - 1
  /\ SetStatus("IDLE")
  /\ UNCHANGED <<memos, activeTab, hasMicPermission, storage, mountPc,
                 loadQueued, jobs, nextId, isRecording, recStream, seconds, recSeconds, isIOS, logs, mimeVars>>

\* App.tsx 151-153, MemoCard.tsx 166-175: the delete button of a card; a second
\* click can arrive before the card is gone.
DeleteMemo(id) ==
  /\ UiOpen /\ activeTab = "library"
  /\ id < nextId
  /\ SetMemos(WithoutMemo(memos, id))
  /\ UNCHANGED <<status, activeTab, hasMicPermission, mountPc, loadQueued, jobs,
                 idleTimers, nextId, isRecording, recStream, seconds, recSeconds, isIOS, transVars, mimeVars>>

\* ------------------------------------------------ Translator, its steps
\* Translator.tsx 490-492: the language select.
SetTargetLang(l) ==
  /\ TranslatorMounted /\ NoStopQueued
  /\ l # targetLang
  /\ Render(status, isPressing, l, translationData, uploadProgress,
            requestIdRef, lastTranslatedTo, requests)
  /\ UNCHANGED <<tRecorder, pressVars, memos, activeTab, hasMicPermission, storage,
                 mountPc, loadQueued, jobs, idleTimers, nextId, isRecording, recStream, seconds, recSeconds,
                 isIOS, logs, mimeVars>>

Remove(reqs, i) == SubSeq(reqs, 1, i - 1) \o SubSeq(reqs, i + 1, Len(reqs))

resetKeepsTimer ==
  /\ timer' = timer
  /\ timerInterval' = FALSE
  /\ Render(status, FALSE, targetLang, translationData, uploadProgress,
            requestIdRef, lastTranslatedTo, requests)

\* Translator.tsx 416-423: resetUIState, then the render.
resetUIState ==
  /\ timer' = 0
  /\ timerInterval' = FALSE
  /\ Render(status, FALSE, targetLang, translationData, uploadProgress,
            requestIdRef, lastTranslatedTo, requests)

StartPressWhileBusy ==
  /\ TranslatorMounted /\ NoStopQueued
  /\ ~held
  /\ held' = TRUE
  /\ Len(starts) < MaxPending
  /\ starts' = Append(starts, [pc |-> "audioCtx", target |-> targetLang])
  /\ Render(status, TRUE, targetLang, translationData, uploadProgress,
            requestIdRef, lastTranslatedTo, requests)
  /\ UNCHANGED <<tRecorder, pressTarget, timer, timerInterval, activeStream,
                 memos, activeTab, hasMicPermission, storage, mountPc,
                 loadQueued, jobs, idleTimers, nextId, isRecording, recStream, seconds, recSeconds, isIOS, logs,
                 mimeVars>>

\* Translator.tsx 339-344, 552-556: the button goes down and startRecording
\* runs up to its first await.  While isBusy it returns at once (340);
\* otherwise the call captures the targetLang of its render and waits for
\* initAudioContext.
StartPress ==
  /\ TranslatorMounted /\ NoStopQueued
  /\ ~held
  /\ held' = TRUE
  /\ IF isBusy(status)
     THEN UNCHANGED <<isPressing, targetLang, translationData, uploadProgress,
                      requestIdRef, lastTranslatedTo, requests, status, starts>>
     ELSE /\ Len(starts) < MaxPending
          /\ starts' = Append(starts, [pc |-> "audioCtx", target |-> targetLang])
          /\ Render(status, TRUE, targetLang, translationData, uploadProgress,
                    requestIdRef, lastTranslatedTo, requests)
  /\ UNCHANGED <<tRecorder, pressTarget, timer, timerInterval, activeStream,
                 memos, activeTab, hasMicPermission, storage, mountPc,
                 loadQueued, jobs, idleTimers, nextId, isRecording, recStream, seconds, recSeconds, isIOS, logs,
                 mimeVars>>

\* Translator.tsx 344-357: initAudioContext resolved.  Offline the call
\* resets the UI and returns; online it restarts the timer and asks for the
\* microphone.
AudioContextReady(i, online) ==
  /\ TranslatorMounted /\ NoStopQueued
  /\ starts[i].pc = "audioCtx"
  /\ IF online
     THEN /\ timer' = 0
          /\ timerInterval' = TRUE
          /\ starts' = [starts EXCEPT ![i].pc = "getUserMedia"]
          /\ UNCHANGED <<isPressing, targetLang, translationData,
                         uploadProgress, requestIdRef, lastTranslatedTo,
                         requests, status>>
     ELSE /\ resetUIState
          /\ starts' = Remove(starts, i)
  /\ UNCHANGED <<tRecorder, pressTarget, held, activeStream, memos,
                 activeTab, hasMicPermission, storage, mountPc, loadQueued,
                 jobs, idleTimers, nextId, isRecording, recStream, seconds, recSeconds, isIOS, logs, mimeVars>>

\* Translator.tsx 360-408: getUserMedia resolved with a stream.  The refs
\* take the new stream and recorder, whatever they held, and the recorder
\* starts.
MicGranted(i) ==
  /\ TranslatorMounted /\ NoStopQueued
  /\ starts[i].pc = "getUserMedia"
  /\ starts' = Remove(starts, i)
  /\ activeStream' = TRUE
  /\ tRecorder' = "recording"
  /\ pressTarget' = starts[i].target
  /\ UNCHANGED <<held, timer, timerInterval, isPressing, targetLang,
                 translationData, uploadProgress, requestIdRef,
                 lastTranslatedTo, requests, status, memos, activeTab,
                 hasMicPermission, storage, mountPc, loadQueued, jobs,
                 idleTimers, nextId, isRecording, recStream, seconds, recSeconds, isIOS, logs, mimeVars>>

\* Translator.tsx 409-413: getUserMedia rejected.
MicRefused(i) ==
  /\ TranslatorMounted /\ NoStopQueued
  /\ starts[i].pc = "getUserMedia"
  /\ starts' = Remove(starts, i)
  /\ resetUIState
  /\ UNCHANGED <<tRecorder, pressTarget, held, activeStream, memos,
                 activeTab, hasMicPermission, storage, mountPc, loadQueued,
                 jobs, idleTimers, nextId, isRecording, recStream, seconds, recSeconds, isIOS, logs, mimeVars>>

\* Translator.tsx 339-408: a whole run of startRecording whose awaits
\* resolve before anything else happens, online and with the microphone
\* granted.
StartRecording ==
  /\ TranslatorMounted /\ NoStopQueued
  /\ ~isBusy(status) /\ ~held /\ starts = <<>>
  /\ requestIdRef < MaxRequests /\ Len(requests) < MaxInFlight
  /\ held' = TRUE
  /\ timer' = 0
  /\ timerInterval' = TRUE
  /\ activeStream' = TRUE
  /\ tRecorder' = "recording"
  /\ pressTarget' = targetLang
  /\ Render(status, TRUE, targetLang, translationData, uploadProgress,
            requestIdRef, lastTranslatedTo, requests)
  /\ UNCHANGED <<starts, memos, activeTab, hasMicPermission, storage, mountPc,
                 loadQueued, jobs, idleTimers, nextId, isRecording, recStream, seconds, recSeconds, isIOS, logs,
                 mimeVars>>

\* Translator.tsx 357: the interval's callback, setTimer(s => s + 1).
TimerTick ==
  /\ TranslatorMounted /\ NoStopQueued
  /\ timerInterval /\ timer < MaxSeconds
  /\ timer' = timer + 1
  /\ UNCHANGED <<memoVars, isPressing, targetLang, translationData,
                 uploadProgress, requestIdRef, lastTranslatedTo, tRecorder,
                 pressTarget, requests, held, timerInterval, starts,
                 activeStream, mimeVars>>

\* Translator.tsx 425-443, 553-556: the button goes up and stopRecording
\* runs.  It stops the recorder of mediaRecorderRef only when that recorder
\* is recording, and leaves the timer's value alone.
StopPress ==
  /\ TranslatorMounted /\ NoStopQueued
  /\ held
  /\ held' = FALSE
  /\ tRecorder' = IF tRecorder = "recording" THEN "stopping" ELSE tRecorder
  /\ timerInterval' = FALSE
  /\ Render(status, FALSE, targetLang, translationData, uploadProgress,
            requestIdRef, lastTranslatedTo, requests)
  /\ UNCHANGED <<pressTarget, timer, starts, activeStream, memos,
                 activeTab, hasMicPermission, storage, mountPc, loadQueued,
                 jobs, idleTimers, nextId, isRecording, recStream, seconds, recSeconds, isIOS, logs, mimeVars>>

\* Translator.tsx 371, 394: the type of the recorded blob.
PressMime ==
  IF isIOS THEN AudioMp4
  ELSE AudioWebm \o <<";","c","o","d","e","c","s","=","o","p","u","s">>

\* Translator.tsx 393-397: the test of onstop that lets the recording go to
\* handleTranslation.
LongEnough(pressDuration, chunks, size) ==
  pressDuration > MinPressMs /\ chunks > 0 /\ size > MinTransBlob

\* Translator.tsx 385-405 and 445-450: the recorder's onstop.  It stops the
\* stream of activeStreamRef, then calls handleTranslation, whose closure
\* holds the targetLang of the render that started the press, or
\* resetUIState.  Chunks are pushed only when they hold data (379-383), so
\* the blob is empty exactly when there is no chunk.
OnStop(pressDuration, chunks, size) ==
  /\ tRecorder = "stopping"
  /\ (chunks = 0) = (size = 0)
  /\ tRecorder' = "inactive"
  /\ activeStream' = FALSE
  /\ pressTarget' = ""
  /\ IF LongEnough(pressDuration, chunks, size)
     THEN /\ requestIdRef < MaxRequests /\ Len(requests) < MaxInFlight
          /\ Render("TRANSLATING", isPressing, targetLang, NullData, TRUE,
                    requestIdRef + 1, lastTranslatedTo,
                    Append(requests,
                           AudioRequest(requestIdRef + 1, PressMime,
                                        pressTarget)))
          /\ UNCHANGED <<timer, timerInterval>>
     ELSE resetUIState
  /\ UNCHANGED <<held, starts, memos, activeTab, hasMicPermission,
                 storage, mountPc, loadQueued, jobs, idleTimers, nextId,
                 isRecording, recStream, seconds, recSeconds, isIOS, logs, mimeVars>>

\* Translator.tsx 290-294; the cancel button is rendered while isBusy
\* (539-549).
CancelTranslation ==
  /\ TranslatorMounted /\ NoStopQueued
  /\ isBusy(status)
  /\ requestIdRef < MaxRequests
  /\ Render("IDLE", isPressing, targetLang, translationData, FALSE,
            requestIdRef + 1, lastTranslatedTo,
            [i \in 1..Len(requests) |-> [requests[i] EXCEPT !.cancelled = TRUE]])
  /\ UNCHANGED <<tRecorder, pressVars, memos, activeTab, hasMicPermission, storage,
                 mountPc, loadQueued, jobs, idleTimers, nextId, isRecording, recStream, seconds, recSeconds,
                 isIOS, logs, mimeVars>>


ApplyKeepsLast(r, s, td, up, last, reqs) ==
  IF r.orphan THEN SetStatusWith(s, reqs)
  ELSE Render(s, isPressing, targetLang, td, up, requestIdRef,
              lastTranslatedTo, reqs)

\* What the callbacks of request r do when the request id guard lets them
\* through: the state setters and lastTranslatedToRef belong to the
\* instance that issued r, and reach nothing once it is unmounted; setStatus
\* is the App's.
Apply(r, s, td, up, last, reqs) ==
  IF r.orphan THEN SetStatusWith(s, reqs)
  ELSE Render(s, isPressing, targetLang, td, up, requestIdRef, last, reqs)

\* Translator.tsx 453-461: reader.onloadend, and the translateAudio call
\* (part_000 208-221) when the blob was read.
ReaderLoaded(i, read) ==
  /\ i <= Len(requests)
  /\ requests[i].kind = "audio" /\ requests[i].phase = "reading"
  /\ LET r == requests[i] IN
     IF r.id # RefSeenBy(r)
     THEN /\ requests' = Remove(requests, i)
          /\ UNCHANGED <<status, isPressing, targetLang, translationData,
                         uploadProgress, requestIdRef, lastTranslatedTo>>
     ELSE IF ~read
     THEN Apply(r, "ERROR", translationData, uploadProgress, lastTranslatedTo,
                Remove(requests, i))
     ELSE Apply(r, status, translationData, FALSE, lastTranslatedTo,
                [requests EXCEPT ![i].phase = "api",
                                 ![i].mime = normalizeMimeType(r.mime)])
  /\ UNCHANGED <<tRecorder, pressVars, memos, activeTab, hasMicPermission, storage,
                 mountPc, loadQueued, jobs, idleTimers, nextId, isRecording, recStream, seconds, recSeconds,
                 isIOS, logs, mimeVars>>

\* Translator.tsx 463-468: translateAudio resolved.
AudioTranslated(i, answer) ==
  /\ i <= Len(requests)
  /\ requests[i].kind = "audio" /\ requests[i].phase = "api"
  /\ LET r == requests[i] IN
     IF r.id = RefSeenBy(r)
     THEN Apply(r, "IDLE", translateAudio(answer), uploadProgress, r.target,
                Remove(requests, i))
     ELSE /\ requests' = Remove(requests, i)
          /\ UNCHANGED <<status, isPressing, targetLang, translationData,
                         uploadProgress, requestIdRef, lastTranslatedTo>>
  /\ UNCHANGED <<tRecorder, pressVars, memos, activeTab, hasMicPermission, storage,
                 mountPc, loadQueued, jobs, idleTimers, nextId, isRecording, recStream, seconds, recSeconds,
                 isIOS, logs, mimeVars>>

\* Translator.tsx 469-475 and 327-333: the catch of a request that threw.
RequestFailed(i) ==
  /\ i <= Len(requests)
  /\ requests[i].phase = "api"
  /\ LET r == requests[i] IN
     IF r.id = RefSeenBy(r)
     THEN /\ idleTimers < MaxTimers
          /\ Apply(r, "ERROR", translationData, uploadProgress,
                   lastTranslatedTo, Remove(requests, i))
          /\ idleTimers' = idleTimers + 1
     ELSE /\ requests' = Remove(requests, i)
          /\ UNCHANGED <<status, isPressing, targetLang, translationData,
                         uploadProgress, requestIdRef, lastTranslatedTo,
                         idleTimers>>
  /\ UNCHANGED <<tRecorder, pressVars, memos, activeTab, hasMicPermission, storage,
                 mountPc, loadQueued, jobs, nextId, isRecording, recStream, seconds, recSeconds, isIOS, logs,
                 mimeVars>>

\* Translator.tsx 321-326: translateText resolved.
TextTranslated(i, answer) ==
  /\ i <= Len(requests)
  /\ requests[i].kind = "text"
  /\ LET r == requests[i] IN
     IF r.id = RefSeenBy(r)
     THEN Apply(r, "IDLE",
                IF translationData = NullData THEN NullData
                ELSE [translationData EXCEPT !.translated = translateText(answer)],
                uploadProgress, r.target, Remove(requests, i))
     ELSE /\ requests' = Remove(requests, i)
          /\ UNCHANGED <<status, isPressing, targetLang, translationData,
                         uploadProgress, requestIdRef, lastTranslatedTo>>
  /\ UNCHANGED <<tRecorder, pressVars, memos, activeTab, hasMicPermission, storage,
                 mountPc, loadQueued, jobs, idleTimers, nextId, isRecording, recStream, seconds, recSeconds,
                 isIOS, logs, mimeVars>>

\* App.tsx 232-237: the Clear Console button of the log panel.
ClearLogs ==
  /\ UiOpen /\ logs # <<>>
  /\ logs' = <<>>
  /\ UNCHANGED <<memos, status, activeTab, hasMicPermission, storage, mountPc,
                 loadQueued, jobs, idleTimers, nextId, isRecording, recStream, seconds, recSeconds, isIOS,
                 transVars, mimeVars>>

\* The page is closed and opened again: only localStorage survives.
Reload ==
  /\ memos' = <<>>
  /\ status' = "IDLE"
  /\ activeTab' = "translate"
  /\ hasMicPermission' = "null"
  /\ mountPc' = "load"
  /\ loadQueued' = [set |-> FALSE, list |-> <<>>]
  /\ jobs' = [j \in 1..MaxMemos |-> NoJob]
  /\ idleTimers' = 0
  /\ isRecording' = FALSE
  /\ recStream' = FALSE
  /\ seconds' = 0
  /\ recSeconds' = 0
  /\ logs' = <<>>
  /\ FreshTranslator
  /\ requests' = <<>>
  /\ UNCHANGED <<storage, nextId, isIOS, mimeVars>>

BlobSizes == {0, MinMemoBlob, MinMemoBlob + 1}
RecChunks == {0, 1}

Next ==
  \/ LoadEffect
  \/ MountSaveEffect
  \/ MountRender
  \/ \E g \in BOOLEAN : RequestPermission(g)
  \/ \E t \in Tabs : SetActiveTab(t)
  \/ RecStart
  \/ \E c \in RecChunks, s \in BlobSizes : RecStop(c, s)
  \/ \E j \in 1..MaxMemos : BlobReadOk(j)
  \/ \E j \in 1..MaxMemos : BlobReadFail(j)
  \/ \E j \in 1..MaxMemos, t \in TranscriptTexts : TranscribeOk(j, t)
  \/ \E j \in 1..MaxMemos : TranscribeFail(j)
  \/ \E j \in 1..MaxMemos, t \in SummaryTexts : SummarizeOk(j, t)
  \/ \E j \in 1..MaxMemos : SummarizeFail(j)
  \/ IdleTimerFire
  \/ \E id \in 1..MaxMemos : DeleteMemo(id)
  \/ ClearLogs
  \/ Reload

Spec == Init /\ [][Next]_vars

\* The app with the Recorder's seconds counting while it records.
NextTimed == Next \/ TickSeconds

SpecTimed == Init /\ [][NextTimed]_vars

\* ------------------------------------------------- the Translator's runs
PressDurations == {MinPressMs, MinPressMs + 1}
PressSizes == {0, MinTransBlob, MinTransBlob + 1}
PressChunks == {0, 1}

\* The page is open, its mount over and the microphone granted.
\* The app after its mount with the microphone granted and nothing stored,
\* the Translator's request counter at ref.
MountedAt(ref) ==
  /\ memos = <<>>
  /\ status = "IDLE"
  /\ activeTab = "translate"
  /\ hasMicPermission = "true"
  /\ storage = [has |-> TRUE, text |-> <<>>]
  /\ mountPc = "ready"
  /\ loadQueued = [set |-> FALSE, list |-> <<>>]
  /\ jobs = [j \in 1..MaxMemos |-> NoJob]
  /\ idleTimers = 0
  /\ nextId = 1
  /\ isRecording = FALSE
  /\ recStream = FALSE
  /\ seconds = 0
  /\ recSeconds = 0
  /\ logs = AddLog(<<>>, "INFO", "Permission")
  /\ isPressing = FALSE
  /\ targetLang = "English"
  /\ translationData = NullData
  /\ uploadProgress = FALSE
  /\ requestIdRef = ref
  /\ lastTranslatedTo = ""
  /\ tRecorder = "none"
  /\ pressTarget = ""
  /\ held = FALSE
  /\ timer = 0
  /\ timerInterval = FALSE
  /\ starts = <<>>
  /\ activeStream = FALSE
  /\ requests = <<>>
  /\ mimeIn = <<>>
  /\ apiMime = NoCall

InitTrans == MountedAt(0) /\ isIOS \in BOOLEAN

NextTrans ==
  \/ \E t \in Tabs : SetActiveTab(t)
  \/ \E l \in Langs : SetTargetLang(l)
  \/ StartRecording
  \/ StopPress
  \/ \E d \in PressDurations, c \in PressChunks, s \in PressSizes :
       OnStop(d, c, s)
  \/ CancelTranslation
  \/ \E i \in 1..Len(requests), read \in BOOLEAN : ReaderLoaded(i, read)
  \/ \E i \in 1..Len(requests) :
       \E a \in AudioAnswers(requests[i].target) : AudioTranslated(i, a)
  \/ \E i \in 1..Len(requests) :
       \E a \in TextAnswers(requests[i].text, requests[i].target) :
         TextTranslated(i, a)
  \/ \E i \in 1..Len(requests) : RequestFailed(i)
  \/ IdleTimerFire

SpecTrans == InitTrans /\ [][NextTrans]_vars

\* The Translator stays mounted and the press of the record button goes
\* step by step: every await of startRecording is a point where other
\* handlers run.
InitPress == MountedAt(0) /\ isIOS = FALSE

NextPress ==
  \/ \E l \in Langs : SetTargetLang(l)
  \/ StartPress
  \/ \E i \in 1..Len(starts), online \in BOOLEAN : AudioContextReady(i, online)
  \/ \E i \in 1..Len(starts) : MicGranted(i)
  \/ \E i \in 1..Len(starts) : MicRefused(i)
  \/ TimerTick
  \/ StopPress
  \/ \E d \in PressDurations, c \in PressChunks, s \in PressSizes :
       OnStop(d, c, s)
  \/ CancelTranslation
  \/ \E i \in 1..Len(requests), read \in BOOLEAN : ReaderLoaded(i, read)
  \/ \E i \in 1..Len(requests) :
       \E a \in AudioAnswers(requests[i].target) : AudioTranslated(i, a)
  \/ \E i \in 1..Len(requests) :
       \E a \in TextAnswers(requests[i].text, requests[i].target) :
         TextTranslated(i, a)
  \/ \E i \in 1..Len(requests) : RequestFailed(i)
  \/ IdleTimerFire

SpecPress == InitPress /\ [][NextPress]_vars

\* ------------------------------------------------ the service seen alone
MimePieces ==
  { <<"a","u","d","i","o","/">>, <<"v","i","d","e","o","/">>,
    <<"w","e","b","m">>, <<"W","e","b","M">>, <<"m","p","4">>,
    <<"m","p">>, <<"4">>, <<"m","4","a">>, <<"x","-","m","4","a">>,
    <<"A","A","C">>, <<"m","p","e","g">>, <<"M","P","3">>, <<"w","a","v">>,
    <<"o","g","g">>, <<";","c","o","d","e","c","s","=","o","p","u","s">> }

RECURSIVE MimeStrings(_)
MimeStrings(n) ==
  IF n = 0 THEN {<<>>}
  ELSE LET shorter == MimeStrings(n - 1)
       IN shorter \cup {s \o p : s \in shorter, p \in MimePieces}

InitMime ==
  /\ memos = <<>>
  /\ status = "IDLE"
  /\ activeTab = "translate"
  /\ hasMicPermission = "null"
  /\ storage = NoItem
  /\ mountPc = "load"
  /\ loadQueued = [set |-> FALSE, list |-> <<>>]
  /\ jobs = [j \in 1..MaxMemos |-> NoJob]
  /\ idleTimers = 0
  /\ nextId = 1
  /\ isRecording = FALSE
  /\ recStream = FALSE
  /\ seconds = 0
  /\ recSeconds = 0
  /\ isIOS = FALSE
  /\ logs = <<>>
  /\ isPressing = FALSE
  /\ targetLang = "English"
  /\ translationData = NullData
  /\ uploadProgress = FALSE
  /\ requestIdRef = 0
  /\ lastTranslatedTo = ""
  /\ tRecorder = "none"
  /\ pressTarget = ""
  /\ held = FALSE
  /\ timer = 0
  /\ timerInterval = FALSE
  /\ starts = <<>>
  /\ activeStream = FALSE
  /\ requests = <<>>
  /\ mimeIn \in MimeStrings(MaxPieces)
  /\ apiMime = NoCall

\* part_000 160-173: transcribeAudio builds its request.
CallTranscribeAudio ==
  /\ apiMime' = [call |-> "transcribeAudio", mimeType |-> normalizeMimeType(mimeIn)]
  /\ UNCHANGED <<mimeIn, memoVars, transVars>>

\* part_000 208-221: translateAudio builds its request.
CallTranslateAudio ==
  /\ apiMime' = [call |-> "translateAudio", mimeType |-> normalizeMimeType(mimeIn)]
  /\ UNCHANGED <<mimeIn, memoVars, transVars>>

NextMime == CallTranscribeAudio \/ CallTranslateAudio

SpecMime == InitMime /\ [][NextMime]_vars

\* ------------------------------------------- storage of an earlier run
\* A memo as a build without the save-time cleaning could have left it.
StoredShapes(id) ==
  LET base == [id |-> id, timestamp |-> id, audioBase64 |-> <<"base64", id>>,
               mimeType |-> AudioMp4, transcript |-> "hello",
               summary |-> "gist", duration |-> 1]
  IN { Spread(base, [isProcessing |-> TRUE,
                     transcript |-> "Analysing voice patterns...",
                     summary |-> "Gemini is thinking..."]),
       Spread(base, [isProcessing |-> TRUE, summary |-> "Gemini is thinking..."]),
       Spread(base, [isProcessing |-> FALSE]),
       Spread(base, [isProcessing |-> FALSE, error |-> TRUE,
                     summary |-> "Cloud processing error."]),
       base }

RECURSIVE StoredLists(_)
StoredLists(n) ==
  IF n = 0 THEN {<<>>}
  ELSE StoredLists(n - 1) \cup
       {l \o <<m>> : l \in {x \in StoredLists(n - 1) : Len(x) = n - 1},
                     m \in StoredShapes(n)}

\* The page opens on a storage item that any earlier build wrote.
InitStored ==
  /\ memos = <<>>
  /\ status = "IDLE"
  /\ activeTab = "translate"
  /\ hasMicPermission = "null"
  /\ \E l \in StoredLists(QuotaLen) :
       /\ storage = [has |-> TRUE, text |-> JSONstringify(l)]
       /\ nextId = Len(l) + 1
  /\ mountPc = "load"
  /\ loadQueued = [set |-> FALSE, list |-> <<>>]
  /\ jobs = [j \in 1..MaxMemos |-> NoJob]
  /\ idleTimers = 0
  /\ isRecording = FALSE
  /\ recStream = FALSE
  /\ seconds = 0
  /\ recSeconds = 0
  /\ isIOS \in BOOLEAN
  /\ logs = <<>>
  /\ isPressing = FALSE
  /\ targetLang = "English"
  /\ translationData = NullData
  /\ uploadProgress = FALSE
  /\ requestIdRef = 0
  /\ lastTranslatedTo = ""
  /\ tRecorder = "none"
  /\ pressTarget = ""
  /\ held = FALSE
  /\ timer = 0
  /\ timerInterval = FALSE
  /\ starts = <<>>
  /\ activeStream = FALSE
  /\ requests = <<>>
  /\ mimeIn = <<>>
  /\ apiMime = NoCall

SpecStored == InitStored /\ [][Next]_vars

\* The memo pipeline and the Translator side by side on the status they
\* share (App.tsx 10, 282-292): the user records memos, switches tabs and
\* translates by voice while memos are processed, and no call fails.
InitBoth == MountedAt(0) /\ isIOS = FALSE

NextBoth ==
  \/ \E t \in Tabs : SetActiveTab(t)
  \/ RecStart
  \/ \E c \in RecChunks, s \in BlobSizes : RecStop(c, s)
  \/ \E j \in 1..MaxMemos : BlobReadOk(j)
  \/ \E j \in 1..MaxMemos, t \in TranscriptTexts : TranscribeOk(j, t)
  \/ \E j \in 1..MaxMemos, t \in SummaryTexts : SummarizeOk(j, t)
  \/ StartRecording
  \/ StopPress
  \/ \E d \in PressDurations, c \in PressChunks, s \in PressSizes :
       OnStop(d, c, s)
  \/ \E i \in 1..Len(requests) : ReaderLoaded(i, TRUE)
  \/ \E i \in 1..Len(requests) :
       \E a \in AudioAnswers(requests[i].target) : AudioTranslated(i, a)

SpecBoth == InitBoth /\ [][NextBoth]_vars

\* Every transcribeAudio and summarizeTranscript call returns or throws.
TranscribeReturns(j) ==
  (\E t \in TranscriptTexts : TranscribeOk(j, t)) \/ TranscribeFail(j)
SummarizeReturns(j) ==
  (\E t \in SummaryTexts : SummarizeOk(j, t)) \/ SummarizeFail(j)

FairSpec ==
  /\ Spec
  /\ \A j \in 1..MaxMemos :
       WF_vars(TranscribeReturns(j)) /\ WF_vars(SummarizeReturns(j))

\* --------------------------------------------------------- properties
StoredMemos == JSONparse(storage.text)

HasKey(m, k) == k \in DOMAIN m

\* The memo m with the three keys of a cleaning set, key by key.
Marked(m, text) ==
  [k \in (DOMAIN m) \cup {"isProcessing", "error", "summary"} |->
     CASE k = "isProcessing" -> FALSE
       [] k = "error" -> TRUE
       [] k = "summary" -> text
       [] OTHER -> m[k]]

IsProcessing(m) == HasKey(m, "isProcessing") /\ m["isProcessing"] = TRUE

\* C1: every value written to localStorage holds no memo with isProcessing
\* true: a memo that is processing at the write is written with isProcessing
\* false, error true and summary "Processing failed", every other memo is
\* written as it is.
C1_SavedNeverProcessing ==
  /\ [](\A i \in 1..Len(storage.text) :
          \A n \in 1..Len(storage.text[i]) :
            storage.text[i][n][1] = "isProcessing" => storage.text[i][n][2] = FALSE)
  /\ [][storage' # storage =>
          /\ storage'.has
          /\ Len(storage'.text) = Len(memos')
          /\ \A i \in 1..Len(memos') :
               ParseObject(storage'.text[i]) =
                 IF IsProcessing(memos'[i])
                 THEN Marked(memos'[i], "Processing failed")
                 ELSE memos'[i]]_vars

C1_Witness ==
  /\ storage.has
  /\ \E i \in 1..Len(memos) :
       /\ IsProcessing(memos[i])
       /\ i <= Len(storage.text)
       /\ StoredMemos[i] = Marked(memos[i], "Processing failed")

\* C4: the load effect turns every stored memo with isProcessing true into one
\* with isProcessing false, error true and summary "Processing interrupted",
\* takes every other stored memo as it is, and the list it hands to setMemos
\* becomes the state, so no memo is processing right after the load.
C4_LoadCleansProcessing ==
  /\ [][(mountPc = "load" /\ mountPc' = "save0" /\ storage.has) =>
          /\ loadQueued'.set
          /\ Len(loadQueued'.list) = Len(StoredMemos)
          /\ \A i \in 1..Len(StoredMemos) :
               loadQueued'.list[i] =
                 IF IsProcessing(StoredMemos[i])
                 THEN Marked(StoredMemos[i], "Processing interrupted")
                 ELSE StoredMemos[i]]_vars
  /\ [][(mountPc = "render" /\ mountPc' = "ready" /\ loadQueued.set) =>
          /\ memos' = loadQueued.list
          /\ \A i \in 1..Len(memos') : ~IsProcessing(memos'[i])]_vars

C4_Witness ==
  /\ mountPc = "ready"
  /\ \E i \in 1..Len(memos) :
       /\ memos[i]["summary"] = "Processing interrupted"
       /\ memos[i]["isProcessing"] = FALSE
       /\ memos[i]["error"] = TRUE

KnownIds == Ids(memos) \cup Ids(loadQueued.list)

ReadDone(j) ==
  jobs[j].stage = "reading" /\ jobs'[j].stage # "reading" /\ mountPc' = "ready"

AddedAtHead(j) ==
  /\ Len(memos') = Len(memos) + 1
  /\ Tail(memos') = memos
  /\ j \notin Ids(memos) /\ j \notin Ids(StoredMemos)
  /\ Head(memos')["id"] = j
  /\ Head(memos')["isProcessing"] = TRUE
  /\ Head(memos')["transcript"] = "Analysing voice patterns..."
  /\ Head(memos')["summary"] = "Gemini is thinking..."

\* C6 as stated: every accepted call of handleRecordingComplete adds one memo
\* at the head of the list, fresh and processing, and nothing else adds a memo.
C6_EveryAcceptedCallAdds ==
  /\ [][\A j \in 1..MaxMemos : ReadDone(j) => AddedAtHead(j)]_vars
  /\ [][Ids(memos') \subseteq KnownIds \/ \E j \in 1..MaxMemos : ReadDone(j)]_vars

\* C6: an accepted call of handleRecordingComplete whose blob is read adds one
\* memo at the head of the list, with a fresh id, isProcessing true and the
\* placeholder texts; a call whose blob cannot be read adds none; nothing else
\* adds a memo.
C6_ReadCallAddsOne ==
  /\ [][\A j \in 1..MaxMemos :
          ReadDone(j) =>
            IF jobs'[j].stage = "transcribing" THEN AddedAtHead(j)
            ELSE Ids(memos') = Ids(memos) /\ Len(memos') = Len(memos)]_vars
  /\ [][Ids(memos') \subseteq KnownIds \/
        \E j \in 1..MaxMemos : ReadDone(j) /\ jobs'[j].stage = "transcribing"]_vars

C6_Witness ==
  \E j \in 1..MaxMemos :
    /\ jobs[j].stage = "transcribing"
    /\ Len(memos) >= 2
    /\ memos[1]["id"] = j /\ memos[1]["isProcessing"] = TRUE

\* A result of the run for memo j arrives: its transcription, its summary or
\* its failure.
ResultArrives(j) ==
  /\ mountPc' = "ready"
  /\ \/ jobs[j].stage \in {"transcribing", "summarizing"} /\ jobs'[j] # jobs[j]
     \/ jobs[j].stage = "reading" /\ jobs'[j].stage = "none"

\* C7: a result of memo j's processing changes only the memo with id j: the
\* list keeps its length and order and every other memo, and when memo j has
\* been deleted the list stays as it is.
C7_ResultChangesOnlyItsMemo ==
  [][\A j \in 1..MaxMemos :
       ResultArrives(j) =>
         /\ Len(memos') = Len(memos)
         /\ \A i \in 1..Len(memos) :
              /\ memos'[i]["id"] = memos[i]["id"]
              /\ memos[i]["id"] # j => memos'[i] = memos[i]
         /\ j \notin Ids(memos) => memos' = memos]_vars

C7_Witness ==
  \E j \in 1..MaxMemos :
    /\ jobs[j].stage = "summarizing"
    /\ \E i, k \in 1..Len(memos) :
         /\ memos[i]["id"] = j /\ memos[i]["transcript"] = "hello"
         /\ memos[k]["id"] # j
         /\ memos[k]["transcript"] = "Analysing voice patterns..."

Pos(list, id) == CHOOSE i \in 1..Len(list) : list[i]["id"] = id

C10_ProcessingEnds ==
  \A j \in 1..MaxMemos :
    (\E i \in 1..Len(memos) : memos[i]["id"] = j /\ IsProcessing(memos[i]))
      ~> ~(\E i \in 1..Len(memos) : memos[i]["id"] = j /\ IsProcessing(memos[i]))

C10_Witness ==
  \E i \in 1..Len(memos) :
    /\ memos[i]["isProcessing"] = FALSE
    /\ memos[i]["summary"] \in {"gist", "Cloud processing error."}
    /\ jobs[memos[i]["id"]].stage = "none"

\* -------------------------------------------- claims on the Translator
\* A response of request i arrives: translateAudio or translateText
\* resolved or threw.
ResponseArrives(i) ==
  \/ \E a \in AudioAnswers(requests[i].target) : AudioTranslated(i, a)
  \/ \E a \in TextAnswers(requests[i].text, requests[i].target) :
       TextTranslated(i, a)
  \/ RequestFailed(i)

\* The reader or the API answers request i.
Answered(i) == ResponseArrives(i) \/ \E read \in BOOLEAN : ReaderLoaded(i, read)

\* C2: a response of a request that is not the most recently issued one
\* (requests holds them in the order of issue) changes none of
\* translationData, lastTranslatedTo and status.
C2_OnlyLatestApplies ==
  [][\A i \in 1..Len(requests) :
       (i < Len(requests) /\ ResponseArrives(i))
         => UNCHANGED <<translationData, lastTranslatedTo, status>>]_vars

\* C3: once cancelTranslation ran, the answer to a request that was in
\* flight at that moment changes none of translationData, lastTranslatedTo
\* and status.
C3_CancelledNeverApplied ==
  [][\A i \in 1..Len(requests) :
       (requests[i].cancelled /\ Answered(i))
         => UNCHANGED <<translationData, lastTranslatedTo, status>>]_vars

\* ------------------------------------------------ claims on the service
\* Two characters that are the same letter, whatever their case.
SameLetter(a, b) ==
  \/ a = b
  \/ \E i \in 1..Len(UpperCase) : {a, b} = {UpperCase[i], LowerCase[i]}

ContainsIgnoringCase(s, word) ==
  \E k \in 0..(Len(s) - Len(word)) :
    \A n \in 1..Len(word) : SameLetter(s[k + n], word[n])

\* The rules in the order the text gives them.
RuleList ==
  << [words |-> {<<"w","e","b","m">>}, type |-> AudioWebm],
     [words |-> {<<"m","p","4">>, <<"m","4","a">>, <<"a","a","c">>},
      type |-> AudioMp4],
     [words |-> {<<"m","p","e","g">>, <<"m","p","3">>}, type |-> AudioMpeg],
     [words |-> {<<"w","a","v">>}, type |-> AudioWav] >>

FirstMatchingRule(s) ==
  LET hits == {i \in 1..Len(RuleList) :
                 \E w \in RuleList[i].words : ContainsIgnoringCase(s, w)}
  IN IF hits = {} THEN AudioMp4
     ELSE RuleList[CHOOSE i \in hits : \A j \in hits : i <= j].type

\* C9: the type a service call sends to the API is normalizeMimeType of its
\* argument: one of audio/webm, audio/mp4, audio/mpeg, audio/wav, chosen
\* case-insensitively by the first matching rule of the list (webm; mp4,
\* m4a or aac; mpeg or mp3; wav), and audio/mp4 when no rule matches.
C9_SentTypeIsFirstRule ==
  apiMime # NoCall =>
    /\ apiMime.mimeType = FirstMatchingRule(mimeIn)
    /\ apiMime.mimeType \in {AudioWebm, AudioMp4, AudioMpeg, AudioWav}

\* translateAudio was called with "WebMmpeg", which two rules match, and
\* sent audio/webm.
C9_Witness ==
  /\ apiMime.call = "translateAudio"
  /\ mimeIn = <<"W","e","b","M","m","p","e","g">>
  /\ apiMime.mimeType = AudioWebm

\* ------------------------------------------- claims on the memo's run
\* The memo with id j after the step, when the list holds it.
MemoOf(list, j) == list[Pos(list, j)]

\* C11: a successful run sets status TRANSCRIBING when the memo is added,
\* SUMMARIZING together with the transcript, and IDLE together with the
\* summary, in that order; the transcript is set while the summary is still
\* the placeholder; isProcessing stays true until the update that sets the
\* summary and is false from that update on; no error flag is set.
C11_SuccessfulRunOrder ==
  /\ [][\A j \in 1..MaxMemos :
          (jobs[j].stage # "transcribing" /\ jobs'[j].stage = "transcribing") =>
            /\ jobs[j].stage = "reading"
            /\ status' = "TRANSCRIBING"]_vars
  /\ [][\A j \in 1..MaxMemos :
          (jobs[j].stage # "summarizing" /\ jobs'[j].stage = "summarizing") =>
            /\ jobs[j].stage = "transcribing"
            /\ status' = "SUMMARIZING"
            /\ j \in Ids(memos') =>
                 /\ MemoOf(memos', j)["transcript"] = jobs'[j].transcript
                 /\ MemoOf(memos', j)["summary"] = "Gemini is thinking..."
                 /\ IsProcessing(MemoOf(memos', j))]_vars
  /\ [][\A j \in 1..MaxMemos : \A t \in SummaryTexts :
          SummarizeOk(j, t) =>
            /\ jobs[j].stage = "summarizing"
            /\ status' = "IDLE"
            /\ j \in Ids(memos') =>
                 /\ MemoOf(memos', j)["transcript"] = jobs[j].transcript
                 /\ MemoOf(memos', j)["summary"] = summarizeTranscript(t)
                 /\ ~IsProcessing(MemoOf(memos', j))
                 /\ ~HasKey(MemoOf(memos', j), "error")]_vars
  /\ [](\A j \in 1..MaxMemos :
          (jobs[j].stage \in {"transcribing", "summarizing"} /\ j \in Ids(memos)) =>
            /\ IsProcessing(MemoOf(memos, j))
            /\ ~HasKey(MemoOf(memos, j), "error"))

\* A run has ended well: its memo holds the transcript and the summary, is
\* not processing and has no error flag, and status is IDLE.
C11_Witness ==
  /\ status = "IDLE"
  /\ \E i \in 1..Len(memos) :
       /\ jobs[memos[i]["id"]].stage = "none"
       /\ memos[i]["transcript"] = "hello"
       /\ memos[i]["summary"] = "gist"
       /\ memos[i]["isProcessing"] = FALSE
       /\ ~HasKey(memos[i], "error")

\* The newest log entries are an ERROR of the cloud run, under at most the
\* warning of the save effect that ran after it.
ErrorLogged(l) ==
  \E k \in 1..Len(l) :
    /\ l[k] = [type |-> "ERROR", source |-> "Cloud"]
    /\ \A n \in 1..(k - 1) : l[n] = [type |-> "WARNING", source |-> "Storage"]

\* C12: when reading the blob or transcribeAudio fails, the memo of the run,
\* if the list holds it, becomes isProcessing false, error true, summary
\* "Cloud processing error." and every memo stays in the list; an ERROR log
\* entry is added; status becomes ERROR and a timer is started that sets it
\* to IDLE.
C12_EarlyFailureMarksMemo ==
  /\ [][\A j \in 1..MaxMemos :
          (BlobReadFail(j) \/ TranscribeFail(j)) =>
            /\ status' = "ERROR"
            /\ idleTimers' = idleTimers + 1
            /\ ErrorLogged(logs')
            /\ Len(memos') = Len(memos)
            /\ \A i \in 1..Len(memos) :
                 memos'[i] = IF memos[i]["id"] = j
                             THEN Marked(memos[i], "Cloud processing error.")
                             ELSE memos[i]]_vars
  /\ [][(idleTimers' = idleTimers - 1 /\ mountPc' = "ready") => status' = "IDLE"]_vars

\* transcribeAudio failed for a memo that is in the list: the memo is marked,
\* status is ERROR, the timer is pending and the error is logged.
C12_Witness ==
  /\ status = "ERROR" /\ idleTimers > 0
  /\ ErrorLogged(logs)
  /\ \E i \in 1..Len(memos) :
       /\ jobs[memos[i]["id"]].stage = "none"
       /\ memos[i]["transcript"] = "Analysing voice patterns..."
       /\ memos[i]["summary"] = "Cloud processing error."
       /\ memos[i]["isProcessing"] = FALSE
       /\ memos[i]["error"] = TRUE

\* C13: when summarizeTranscript fails after transcribeAudio returned, the
\* memo of the run, if the list holds it, keeps the transcript that was
\* returned, is no longer processing, and its summary is no longer the
\* placeholder "Gemini is thinking...".
C13_SummaryFailureKeepsTranscript ==
  [][\A j \in 1..MaxMemos :
       (SummarizeFail(j) /\ j \in Ids(memos)) =>
         /\ j \in Ids(memos')
         /\ MemoOf(memos', j)["transcript"] = jobs[j].transcript
         /\ jobs[j].transcript \in {transcribeAudio(t) : t \in TranscriptTexts}
         /\ ~IsProcessing(MemoOf(memos', j))
         /\ MemoOf(memos', j)["summary"] # "Gemini is thinking..."]_vars

\* A memo whose summarization failed: transcript kept, marked as failed.
C13_Witness ==
  \E i \in 1..Len(memos) :
    /\ jobs[memos[i]["id"]].stage = "none"
    /\ memos[i]["transcript"] = "hello"
    /\ memos[i]["summary"] = "Cloud processing error."
    /\ memos[i]["isProcessing"] = FALSE

\* C14: when the Translator's recorder stops after a press of at most 400
\* ms, or with no chunk, or with a blob of at most 500 bytes, no request is
\* issued, the request id and the status stay as they are, and the UI is
\* reset: isPressing false, the timer at 0, no timer interval.
C14_ShortPressIgnored ==
  [][\A d \in PressDurations, c \in PressChunks, s \in PressSizes :
       (OnStop(d, c, s) /\ (d <= MinPressMs \/ c = 0 \/ s <= MinTransBlob)) =>
         /\ requests' = requests
         /\ requestIdRef' = requestIdRef
         /\ status' = status
         /\ ~isPressing'
         /\ timer' = 0
         /\ ~timerInterval']_vars

\* The recorder of the first press has stopped and no request was issued.
C14_Witness ==
  /\ TranslatorMounted
  /\ tRecorder = "inactive"
  /\ requestIdRef = 0
  /\ status = "IDLE"
  /\ timer = 0
  /\ ~isPressing

\* C15: whenever an original text exists, the Translator is neither busy
\* nor pressed and targetLang differs from lastTranslatedTo, the
\* re-translation request has been issued: since the effect issues it in the
\* render that makes the condition true, and the Translator is busy from
\* then on, no state is left in which the condition holds.
C15_DueIsIssued ==
  TranslatorMounted =>
    ~shouldReTranslate(translationData, isBusy(status), isPressing,
                       targetLang, lastTranslatedTo)

\* A request of the mounted Translator that its id guard will let through.
InFlight ==
  \E i \in 1..Len(requests) :
    ~requests[i].orphan /\ requests[i].id = requestIdRef

\* What a request for the target language tl can leave as the translated
\* text of an original.
ResultsFor(original, tl) ==
  {translateAudio(a).translated : a \in AudioAnswers(tl)}
    \cup {translateText(a) : a \in TextAnswers(original, tl)}

\* C16: whenever translationData is non-null and no translation is in
\* flight, the translated text is the result of a request whose target
\* language is lastTranslatedTo; and a re-translation that is applied
\* replaces the translated text and leaves the original as it was.
C16_LastTracksTranslated ==
  /\ [](TranslatorMounted /\ translationData # NullData
          /\ ~isBusy(status) /\ ~InFlight
        => translationData.translated
             \in ResultsFor(translationData.original, lastTranslatedTo))
  /\ [][\A i \in 1..Len(requests) :
          \A a \in TextAnswers(requests[i].text, requests[i].target) :
            (/\ TextTranslated(i, a)
             /\ ~requests[i].orphan /\ requests[i].id = requestIdRef
             /\ translationData # NullData)
            => /\ translationData'.original = translationData.original
               /\ translationData'.translated = translateText(a)
               /\ lastTranslatedTo' = requests[i].target]_vars

\* A re-translation into the second language has been applied.
C16_Witness ==
  /\ TranslatorMounted
  /\ translationData # NullData
  /\ translationData.original = Heard
  /\ translationData.translated = Translation(Heard, "Chinese")
  /\ lastTranslatedTo = "Chinese"
  /\ status = "IDLE"
  /\ requests = <<>>

\* C17: while the status is TRANSLATING, startRecording returns at once: no
\* call of it is left waiting for the audio context or the microphone, no
\* recorder or stream is created, and isPressing, the timer, its interval,
\* the request id and the requests stay as they are.  cancelTranslation
\* runs only in that state, where its button is rendered.
C17_BusyPressIgnored ==
  [][/\ (StartPress /\ isBusy(status)) =>
          UNCHANGED <<starts, tRecorder, activeStream, pressTarget, isPressing,
                      timer, timerInterval, requestIdRef, requests, status,
                      translationData, uploadProgress>>
     /\ CancelTranslation => status = "TRANSLATING"]_vars

\* The button went down while the audio request of the first press was in
\* flight.
C17_Witness ==
  /\ TranslatorMounted
  /\ held
  /\ status = "TRANSLATING"
  /\ requestIdRef = 1
  /\ Len(requests) = 1 /\ requests[1].kind = "audio"
  /\ tRecorder = "inactive"
  /\ starts = <<>>
  /\ ~isPressing

\* C18: once the record button of the Translator is released, no recorder
\* is recording, no timer interval is active, and the microphone stream is
\* stopped as soon as the recorder's stop event has been handled; also when
\* the release came before initAudioContext or getUserMedia resolved.
C18_ReleasedIsQuiet ==
  (TranslatorMounted /\ ~held) =>
    /\ tRecorder # "recording"
    /\ ~timerInterval
    /\ tRecorder # "stopping" => ~activeStream

\* C19: when the memo Recorder's recorder stops, onRecordingComplete is
\* called at most once, and only if a non-empty chunk was captured and the
\* blob is larger than 1500 bytes; in every case the tracks of the
\* microphone stream are stopped.
C19_StopCompletesAtMostOnce ==
  [][\A c \in RecChunks, s \in BlobSizes :
       RecStop(c, s) =>
         /\ nextId' \in {nextId, nextId + 1}
         /\ \A j \in 1..MaxMemos : jobs'[j] # jobs[j] => j = nextId
         /\ nextId' = nextId + 1 => (c > 0 /\ s > MinMemoBlob)
         /\ ~recStream']_vars

\* The Recorder has stopped, its recording went to handleRecordingComplete
\* and the stream is closed.
C19_Witness ==
  /\ activeTab = "record"
  /\ ~isRecording /\ ~recStream
  /\ \E j \in 1..MaxMemos : jobs[j].stage = "reading"

\* C20: at most one memo has isProcessing true at any time, whatever
\* recordings, tab switches and translations happen.
C20_OneProcessing ==
  Cardinality({i \in 1..Len(memos) : IsProcessing(memos[i])}) <= 1

\* C21: whenever a request of the mounted Translator whose id is the
\* current request id awaits its response, the shared status is
\* TRANSLATING, whatever error timers fire and memo runs do meanwhile.
C21_CurrentRequestKeepsBusy ==
  (TranslatorMounted /\ InFlight) => status = "TRANSLATING"

\* C22: the duration stored in a new memo is the Recorder's elapsed
\* seconds at the moment the recording was stopped, or 1 when they are 0.
C22_DurationIsElapsed ==
  [][\A j \in 1..MaxMemos :
       BlobReadOk(j) =>
         MemoOf(memos', j)["duration"] =
           IF jobs[j].elapsed = 0 THEN 1 ELSE jobs[j].elapsed]_vars

====
